---- MODULE Spec2Model ----
(***************************************************************************)
(* Model of biz/gitea/webhook_handler.py: the module-level filter_changes, *)
(* PullRequestHandler and PushHandler.                                     *)
(*                                                                         *)
(* Text is modelled as a sequence of lexical tokens.  A token is a single  *)
(* character, except DIFF_GIT, which stands for the literal 'diff --git'.  *)
(* Python's None is the string "None" (what an f-string renders it as);    *)
(* identifiers that the code only interpolates into a URL (owner, repo,    *)
(* PR number, commit id) are atomic strings.                               *)
(***************************************************************************)
EXTENDS Integers, Sequences, FiniteSets, TLC

VARIABLES
    kind,          \* which object was constructed: "pull_request", "push", or a bare function call
    self,          \* the handler's fields after __init__ (repo_owner, repo_name, ...)
    webhook_data,  \* the payload fields the methods read again after construction
    environ,       \* os.environ entry SUPPORTED_EXTENSIONS
    op,            \* the method being executed, or last executed
    args,          \* its arguments
    pc,            \* "ready", "loop", "returned", "raised"
    attempt,       \* loop variable of get_pull_request_changes
    http,          \* requests issued by the current call, in order
    responses,     \* responses received by the current call, in order
    slept,         \* time.sleep calls of the current call: the attempt each one followed
    result         \* return value of the current call

vars == <<kind, self, webhook_data, environ, op, args, pc, attempt, http, responses, slept, result>>

None == "None"
NL == "\n"
DIFF_GIT == "diff --git"

\* Python truthiness of an atomic value that is None or a str
Truthy(x) == x # None /\ x # ""

(***************************************************************************)
(* str methods                                                             *)
(***************************************************************************)
StartsWith(s, p) == Len(p) <= Len(s) /\ SubSeq(s, 1, Len(p)) = p

EndsWith(s, p) == Len(p) <= Len(s) /\ SubSeq(s, Len(s) - Len(p) + 1, Len(s)) = p

\* sub in s
Contains(s, sub) == \E i \in 1..(Len(s) - Len(sub) + 1) : SubSeq(s, i, i + Len(sub) - 1) = sub

RECURSIVE Split(_, _)
Split(s, sep) ==
    IF \A i \in 1..Len(s) : s[i] # sep
    THEN <<s>>
    ELSE LET i == CHOOSE k \in 1..Len(s) : s[k] = sep /\ \A j \in 1..(k - 1) : s[j] # sep
         IN  <<SubSeq(s, 1, i - 1)>> \o Split(SubSeq(s, i + 1, Len(s)), sep)

RECURSIVE Join(_, _)
Join(parts, sep) ==
    IF parts = <<>> THEN <<>>
    ELSE IF Len(parts) = 1 THEN parts[1]
    ELSE parts[1] \o <<sep>> \o Join(Tail(parts), sep)

IsSpace(c) == c = " "

RECURSIVE LStrip(_)
LStrip(s) == IF s # <<>> /\ IsSpace(Head(s)) THEN LStrip(Tail(s)) ELSE s

RECURSIVE RStrip(_)
RStrip(s) == IF s # <<>> /\ IsSpace(s[Len(s)]) THEN RStrip(SubSeq(s, 1, Len(s) - 1)) ELSE s

Strip(s) == RStrip(LStrip(s))

\* all sequences over S of length at most n
RECURSIVE SeqsUpTo(_, _)
SeqsUpTo(S, n) ==
    IF n = 0 THEN {<<>>}
    ELSE LET shorter == SeqsUpTo(S, n - 1)
         IN  shorter \cup {Append(s, x) : s \in {t \in shorter : Len(t) = n - 1}, x \in S}

(***************************************************************************)
(* PullRequestHandler._extract_file_diff                                   *)
(***************************************************************************)
RECURSIVE ExtractLoop(_, _, _, _, _)
ExtractLoop(lines, filename, i, in_file, result_lines) ==
    IF i > Len(lines) THEN result_lines
    ELSE LET line == lines[i] IN
         IF StartsWith(line, <<DIFF_GIT>>) /\ Contains(line, filename)
         THEN ExtractLoop(lines, filename, i + 1, TRUE, Append(result_lines, line))
         ELSE IF in_file
              THEN IF StartsWith(line, <<DIFF_GIT>>)
                   THEN result_lines
                   ELSE ExtractLoop(lines, filename, i + 1, TRUE, Append(result_lines, line))
              ELSE ExtractLoop(lines, filename, i + 1, FALSE, result_lines)

_extract_file_diff(full_diff, filename) ==
    LET result_lines == ExtractLoop(Split(full_diff, NL), filename, 1, FALSE, <<>>)
    IN  IF result_lines # <<>> THEN Join(result_lines, NL) ELSE <<>>

\* Inputs of the diff extractor: every text over the alphabet up to MaxDiffLen tokens
MaxDiffLen == 5
DiffAlphabet == {DIFF_GIT, NL, "a", "b"}
ExtractFilenames == {<<"a">>, <<"b">>, <<"b", "a">>}

Idle ==
    /\ kind = "function"
    /\ self = <<>>
    /\ webhook_data = <<>>
    /\ environ = [present |-> FALSE, value |-> <<>>]
    /\ attempt = 0
    /\ http = <<>>
    /\ responses = <<>>
    /\ slept = <<>>

InitExtract ==
    /\ Idle
    /\ op = "_extract_file_diff"
    /\ args \in [full_diff : SeqsUpTo(DiffAlphabet, MaxDiffLen), filename : ExtractFilenames]
    /\ pc = "ready"
    /\ result = <<>>

ExtractFileDiff ==
    /\ op = "_extract_file_diff"
    /\ pc = "ready"
    /\ result' = _extract_file_diff(args.full_diff, args.filename)
    /\ pc' = "returned"
    /\ UNCHANGED <<kind, self, webhook_data, environ, op, args, attempt, http, responses, slept>>

NextExtract == ExtractFileDiff

SpecExtract == InitExtract /\ [][NextExtract]_vars

IsBoundary(line) == StartsWith(line, <<DIFF_GIT>>)

ClaimedBlock(full_diff, filename) ==
    LET lines == Split(full_diff, NL)
        starts == {i \in 1..Len(lines) : IsBoundary(lines[i]) /\ Contains(lines[i], filename)}
    IN  IF starts = {} THEN <<>>
        ELSE LET first == CHOOSE i \in starts : \A j \in starts : i <= j
                 later == {j \in (first + 1)..Len(lines) : IsBoundary(lines[j])}
                 stop  == IF later = {} THEN Len(lines) + 1
                          ELSE CHOOSE j \in later : \A k \in later : j <= k
             IN  Join(SubSeq(lines, first, stop - 1), NL)

(***************************************************************************)
(* C4.  _extract_file_diff returns the block of lines from the first       *)
(* 'diff --git' line containing the filename up to, and not including,     *)
(* the next 'diff --git' line of any file (or the end of the text), and    *)
(* the empty string when no 'diff --git' line contains the filename.       *)
(***************************************************************************)
C4_ExtractStopsAtNextBoundary ==
    (op = "_extract_file_diff" /\ pc = "returned")
        => result = ClaimedBlock(args.full_diff, args.filename)

(***************************************************************************)
(* filter_changes                                                          *)
(***************************************************************************)
getenv(default) == IF environ.present THEN environ.value ELSE default

\* [ext for ext in supported_extensions_str.split(",") if ext.strip()]
StrippedNonEmpty_unstripped(parts) == SelectSeq(parts, LAMBDA ext : Strip(ext) # <<>>)

\* [ext.strip() for ext in supported_extensions_str.split(",") if ext.strip()]
StrippedNonEmpty(parts) ==
    LET kept == SelectSeq(parts, LAMBDA ext : Strip(ext) # <<>>)
    IN  [k \in 1..Len(kept) |-> Strip(kept[k])]

filter_changes(changes) ==
    LET supported_extensions_str == getenv(<<>>)
    IN  IF supported_extensions_str = <<>> THEN <<>>
        ELSE LET supported_extensions == StrippedNonEmpty(Split(supported_extensions_str, ","))
             IN  IF supported_extensions = <<>> THEN <<>>
                 ELSE SelectSeq(changes,
                                LAMBDA change : \E k \in 1..Len(supported_extensions) :
                                                   EndsWith(change.new_path, supported_extensions[k]))

\* Inputs of the filter
MaxEnvLen == 4
MaxChanges == 2
EnvAlphabet == {",", " ", "p", "y"}
FilterPaths == {<<>>, <<"y">>, <<"p", "y">>, <<"y", "p">>}
FilterChanges == {[old_path |-> f, new_path |-> f, diff |-> <<>>] : f \in FilterPaths}

InitFilter ==
    /\ kind = "function"
    /\ self = <<>>
    /\ webhook_data = <<>>
    /\ environ \in {[present |-> FALSE, value |-> <<>>]}
                   \cup [present : {TRUE}, value : SeqsUpTo(EnvAlphabet, MaxEnvLen)]
    /\ attempt = 0
    /\ http = <<>>
    /\ responses = <<>>
    /\ slept = <<>>
    /\ op = "filter_changes"
    /\ args \in [changes : SeqsUpTo(FilterChanges, MaxChanges)]
    /\ pc = "ready"
    /\ result = <<>>

FilterChangesCall ==
    /\ op = "filter_changes"
    /\ pc = "ready"
    /\ result' = filter_changes(args.changes)
    /\ pc' = "returned"
    /\ UNCHANGED <<kind, self, webhook_data, environ, op, args, attempt, http, responses, slept>>

NextFilter == FilterChangesCall

SpecFilter == InitFilter /\ [][NextFilter]_vars

\* ext is a configured suffix of the text s: some maximal comma-free segment of s
\* is ext surrounded by whitespace only, and ext is not empty
IsConfiguredSuffix(s, ext) ==
    /\ ext # <<>>
    /\ ~IsSpace(ext[1]) /\ ~IsSpace(ext[Len(ext)])
    /\ \E i \in 1..(Len(s) + 1), j \in 0..Len(s) :
          /\ i <= j
          /\ (i = 1 \/ s[i - 1] = ",")
          /\ (j = Len(s) \/ s[j + 1] = ",")
          /\ \A k \in i..j : s[k] # ","
          /\ \E a \in i..j, b \in i..j :
                /\ SubSeq(s, a, b) = ext
                /\ \A k \in (i..(a - 1)) \cup ((b + 1)..j) : IsSpace(s[k])

EndsWithConfiguredSuffix(path) ==
    /\ environ.present
    /\ \E a \in 1..Len(environ.value), b \in 1..Len(environ.value) :
          /\ a <= b
          /\ IsConfiguredSuffix(environ.value, SubSeq(environ.value, a, b))
          /\ EndsWith(path, SubSeq(environ.value, a, b))

(***************************************************************************)
(* C5.  filter_changes returns the order-preserving sublist of the changes *)
(* whose new_path ends with a configured suffix, the configured suffixes   *)
(* being the comma-separated entries with surrounding whitespace removed   *)
(* and empty entries dropped; it returns the empty list when the variable  *)
(* is unset, empty, or holds no suffix.                                    *)
(***************************************************************************)
C5_FilterKeepsExactlyMatching ==
    (op = "filter_changes" /\ pc = "returned")
        => result = SelectSeq(args.changes, LAMBDA c : EndsWithConfiguredSuffix(c.new_path))

C5_Witness ==
    /\ op = "filter_changes" /\ pc = "returned"
    /\ environ.present /\ environ.value = <<" ", "y", ",", "p">>
    /\ Len(args.changes) = 2
    /\ Len(result) = 1
    /\ result[1] = args.changes[2]

(***************************************************************************)
(* The HTTP collaborator (requests.get / requests.post)                    *)
(***************************************************************************)
\* The request a method issues: the URL's variable parts.  target is the PR number
\* or the commit id; before/after are the two ends of a compare.
Request(method, endpoint, target, before, after) ==
    [method |-> method, endpoint |-> endpoint,
     owner |-> self.repo_owner, repo |-> self.repo_name,
     target |-> target, before |-> before, after |-> after]

\* What came back: raised = the call raised instead of returning a response;
\* json = the decoded body (a file list), text = the raw body (a diff blob).
Response(raised, status, json, text) ==
    [raised |-> raised, status |-> status, json |-> json, text |-> text]

Ok(response) == ~response.raised /\ response.status = 200

(***************************************************************************)
(* PullRequestHandler.get_pull_request_changes                             *)
(***************************************************************************)
\* range(max_retries + 1)
max_retries_off_by_one == 3 + 1

max_retries == 3
retry_delay == 10

\* Upstream answers.  File entries carry the filename the hosting API reports
\* (never empty), a patch that may be empty, and line statistics.
MaxFiles == 2
PRFilenames == {<<"a">>, <<"b">>}
PRPatches == {<<>>, <<"+">>}
PRFileEntries == [filename : PRFilenames, patch : PRPatches, additions : {1}, deletions : {0}]
PRFileLists == SeqsUpTo(PRFileEntries, MaxFiles)
ErrorStatuses == {404, 500}
DiffBlobs ==
    { <<>>,
      <<DIFF_GIT, "a", NL, "+", NL, DIFF_GIT, "b", NL, "+">>,
      <<DIFF_GIT, "b", NL, "a">> }
DiffResponses ==
    {Response(FALSE, 200, <<>>, blob) : blob \in DiffBlobs}
        \cup {Response(FALSE, st, <<>>, <<>>) : st \in ErrorStatuses}
        \cup {Response(TRUE, 0, <<>>, <<>>)}

\* the whole blob is taken as the file's diff, without extraction
FilePatch_whole_blob(file, diff_response) ==
    IF file.patch # <<>> THEN file.patch
    ELSE IF Ok(diff_response)
              /\ file.filename # <<>> /\ Contains(diff_response.text, file.filename)
         THEN diff_response.text
         ELSE file.patch

\* lines 83-101: the diff of one file entry, given the answer to the .diff request
\* (consulted only when the entry's patch is empty)
FilePatch(file, diff_response) ==
    IF file.patch # <<>> THEN file.patch
    ELSE IF Ok(diff_response)
              /\ file.filename # <<>> /\ Contains(diff_response.text, file.filename)
         THEN _extract_file_diff(diff_response.text, file.filename)
         ELSE file.patch

\* lines 79-111: the loop over the file entries.  oracle[i] is what the .diff
\* endpoint answers if it is asked for entry i; acc collects the changes and the
\* requests and responses of the .diff calls actually made.
RECURSIVE BuildChanges(_, _, _, _)
BuildChanges(files, oracle, i, acc) ==
    IF i > Len(files) THEN acc
    ELSE LET file == files[i]
             fetch == file.patch = <<>>
             change == [old_path |-> file.filename, new_path |-> file.filename,
                        diff |-> FilePatch(file, oracle[i]),
                        additions |-> file.additions, deletions |-> file.deletions]
         IN  BuildChanges(files, oracle, i + 1,
                 [changes |-> Append(acc.changes, change),
                  http |-> IF fetch
                           THEN Append(acc.http,
                                       Request("GET", "diff", self.pull_request_index, <<>>, <<>>))
                           ELSE acc.http,
                  responses |-> IF fetch THEN Append(acc.responses, oracle[i])
                                ELSE acc.responses])

\* What the .diff endpoint answers for each entry, if asked.  The answer for an
\* entry that has a patch is never read (line 86), so one value stands for it.
RECURSIVE DiffOracles(_)
DiffOracles(files) ==
    IF files = <<>> THEN {<<>>}
    ELSE LET n == Len(files)
             choices == IF files[n].patch = <<>> THEN DiffResponses
                        ELSE {Response(FALSE, 200, <<>>, <<>>)}
         IN  {Append(o, r) : o \in DiffOracles(SubSeq(files, 1, n - 1)), r \in choices}

FilesRequest == Request("GET", "files", self.pull_request_index, <<>>, <<>>)

CallGetPullRequestChanges ==
    /\ kind = "pull_request"
    /\ pc = "ready"
    /\ op' = "get_pull_request_changes"
    /\ args' = <<>>
    /\ pc' = "loop"
    /\ attempt' = 0
    /\ http' = <<>>
    /\ responses' = <<>>
    /\ slept' = <<>>
    /\ result' = <<>>
    /\ UNCHANGED <<kind, self, webhook_data, environ>>

InLoop == op = "get_pull_request_changes" /\ pc = "loop" /\ attempt < max_retries

\* line 71 raises: the exception leaves the method
FilesRequestRaises ==
    /\ InLoop
    /\ http' = Append(http, FilesRequest)
    /\ responses' = Append(responses, Response(TRUE, 0, <<>>, <<>>))
    /\ pc' = "raised"
    /\ UNCHANGED <<kind, self, webhook_data, environ, op, args, attempt, slept, result>>

\* a failed request is retried like an empty list instead of ending the method
FilesNotOk_retried ==
    /\ op = "get_pull_request_changes" /\ pc = "loop" /\ attempt < max_retries
    /\ \E st \in ErrorStatuses :
          /\ http' = Append(http, Request("GET", "files", self.pull_request_index, <<>>, <<>>))
          /\ responses' = Append(responses, Response(FALSE, st, <<>>, <<>>))
    /\ attempt' = attempt + 1
    /\ UNCHANGED <<kind, self, webhook_data, environ, op, args, pc, slept, result>>

\* lines 119-123
FilesNotOk ==
    /\ InLoop
    /\ \E st \in ErrorStatuses :
          /\ http' = Append(http, FilesRequest)
          /\ responses' = Append(responses, Response(FALSE, st, <<>>, <<>>))
    /\ result' = <<>>
    /\ pc' = "returned"
    /\ UNCHANGED <<kind, self, webhook_data, environ, op, args, attempt, slept>>

\* lines 76-113
FilesNonEmpty ==
    /\ InLoop
    /\ \E files \in PRFileLists \ {<<>>} :
          \E oracle \in DiffOracles(files) :
             LET built == BuildChanges(files, oracle, 1,
                                       [changes |-> <<>>, http |-> <<>>, responses |-> <<>>])
             IN  /\ http' = Append(http, FilesRequest) \o built.http
                 /\ responses' = Append(responses, Response(FALSE, 200, files, <<>>))
                                     \o built.responses
                 /\ result' = built.changes
    /\ pc' = "returned"
    /\ UNCHANGED <<kind, self, webhook_data, environ, op, args, attempt, slept>>

\* lines 114-118, then the next iteration of the for loop
FilesEmpty ==
    /\ InLoop
    /\ http' = Append(http, FilesRequest)
    /\ responses' = Append(responses, Response(FALSE, 200, <<>>, <<>>))
    /\ slept' = Append(slept, [after_attempt |-> attempt + 1, seconds |-> retry_delay])
    /\ attempt' = attempt + 1
    /\ UNCHANGED <<kind, self, webhook_data, environ, op, args, pc, result>>

\* lines 125-126: the for loop is exhausted
MaxRetriesReached ==
    /\ op = "get_pull_request_changes" /\ pc = "loop"
    /\ attempt >= max_retries
    /\ result' = <<>>
    /\ pc' = "returned"
    /\ UNCHANGED <<kind, self, webhook_data, environ, op, args, attempt, http, responses, slept>>

(***************************************************************************)
(* PullRequestHandler.add_pull_request_comment                             *)
(***************************************************************************)
CommentResponses ==
    {Response(FALSE, st, <<>>, <<>>) : st \in {201, 403, 500}}
        \cup {Response(TRUE, 0, <<>>, <<>>)}

AddPullRequestComment ==
    /\ kind = "pull_request"
    /\ pc = "ready"
    /\ op' = "add_pull_request_comment"
    /\ args' = [review_result |-> "review"]
    /\ \E response \in CommentResponses :
          /\ http' = <<Request("POST", "issue_comments", self.pull_request_index, <<>>, <<>>)>>
          /\ responses' = <<response>>
          /\ pc' = IF response.raised THEN "raised" ELSE "returned"
    /\ attempt' = 0
    /\ slept' = <<>>
    /\ result' = <<>>
    /\ UNCHANGED <<kind, self, webhook_data, environ>>

(***************************************************************************)
(* PushHandler                                                             *)
(***************************************************************************)
\* the literal of after.startswith("0000000") and before.startswith("0000000")
ZERO_PREFIX == <<"0", "0", "0", "0", "0", "0", "0">>

Zeros(n) == [i \in 1..n |-> "0"]

\* lines 265-287, given the response to the compare request
repository_compare(response) ==
    IF response.status = 200
    THEN [i \in 1..Len(response.json) |->
             [old_path |-> response.json[i].filename,
              new_path |-> response.json[i].filename,
              diff |-> response.json[i].patch]]
    ELSE <<>>

CompareFileLists == SeqsUpTo([filename : {<<"a">>}, patch : {<<"+">>}], MaxFiles)
CompareResponses ==
    {Response(FALSE, 200, files, <<>>) : files \in CompareFileLists}
        \cup {Response(FALSE, st, <<>>, <<>>) : st \in ErrorStatuses}
        \cup {Response(TRUE, 0, <<>>, <<>>)}

\* the branch-deletion check on after is missing
compare_plan_no_deletion_check(before, after) ==
    IF before # <<>> /\ after # <<>>
    THEN [call |-> TRUE,
          before |-> IF StartsWith(before, ZERO_PREFIX) THEN after \o <<"^">> ELSE before,
          after |-> after]
    ELSE [call |-> FALSE, before |-> <<>>, after |-> <<>>]

\* the all-zero before is passed on instead of the parent of after
compare_plan_no_parent(before, after) ==
    IF before # <<>> /\ after # <<>>
    THEN IF StartsWith(after, ZERO_PREFIX)
         THEN [call |-> FALSE, before |-> <<>>, after |-> <<>>]
         ELSE [call |-> TRUE, before |-> before, after |-> after]
    ELSE [call |-> FALSE, before |-> <<>>, after |-> <<>>]

\* "if before or after" in place of "if before and after"
compare_plan_either_sha(before, after) ==
    IF before # <<>> \/ after # <<>>
    THEN IF StartsWith(after, ZERO_PREFIX)
         THEN [call |-> FALSE, before |-> <<>>, after |-> <<>>]
         ELSE [call |-> TRUE,
               before |-> IF StartsWith(before, ZERO_PREFIX) THEN after \o <<"^">> ELSE before,
               after |-> after]
    ELSE [call |-> FALSE, before |-> <<>>, after |-> <<>>]

\* lines 294-304: the compare that get_push_changes asks for, if any
compare_plan(before, after) ==
    IF before # <<>> /\ after # <<>>
    THEN IF StartsWith(after, ZERO_PREFIX)
         THEN [call |-> FALSE, before |-> <<>>, after |-> <<>>]
         ELSE [call |-> TRUE,
               before |-> IF StartsWith(before, ZERO_PREFIX) THEN after \o <<"^">> ELSE before,
               after |-> after]
    ELSE [call |-> FALSE, before |-> <<>>, after |-> <<>>]

\* lines 289-304
GetPushChanges ==
    /\ kind = "push"
    /\ pc = "ready"
    /\ op' = "get_push_changes"
    /\ args' = <<>>
    /\ attempt' = 0
    /\ slept' = <<>>
    /\ LET plan == compare_plan(webhook_data.before, webhook_data.after)
       IN  IF self.commit_list = <<>> \/ ~plan.call
           THEN /\ http' = <<>> /\ responses' = <<>> /\ result' = <<>> /\ pc' = "returned"
           ELSE \E response \in CompareResponses :
                   /\ http' = <<Request("GET", "compare", "", plan.before, plan.after)>>
                   /\ responses' = <<response>>
                   /\ IF response.raised
                      THEN result' = <<>> /\ pc' = "raised"
                      ELSE result' = repository_compare(response) /\ pc' = "returned"
    /\ UNCHANGED <<kind, self, webhook_data, environ>>

\* self.commit_list[0].get("id")
last_commit_id_first == self.commit_list[1].id

\* line 244
last_commit_id == self.commit_list[Len(self.commit_list)].id

\* lines 239-263
AddPushNotes ==
    /\ kind = "push"
    /\ pc = "ready"
    /\ op' = "add_push_notes"
    /\ args' = [message |-> "review"]
    /\ attempt' = 0
    /\ slept' = <<>>
    /\ result' = <<>>
    /\ IF self.commit_list = <<>> \/ ~Truthy(last_commit_id)
       THEN http' = <<>> /\ responses' = <<>> /\ pc' = "returned"
       ELSE \E response \in CommentResponses :
               /\ http' = <<Request("POST", "commit_comments", last_commit_id, <<>>, <<>>)>>
               /\ responses' = <<response>>
               /\ pc' = IF response.raised THEN "raised" ELSE "returned"
    /\ UNCHANGED <<kind, self, webhook_data, environ>>

(***************************************************************************)
(* The handlers after construction (parse_pull_request_event,              *)
(* parse_push_event): every field the payload may or may not carry         *)
(***************************************************************************)
MaxCommits == 2
Owners == {None, "", "acme"}
Repos == {None, "widgets"}
PRNumbers == {None, "42"}
CommitIds == {None, "", "c1", "c2"}
\* absent or empty, an ordinary SHA, one zero short of the prefix, all-zero, and
\* the prefix followed by something else
Shas == {Zeros(n) \o tail : n \in {0, Len(ZERO_PREFIX) - 1, Len(ZERO_PREFIX)},
                            tail \in {<<>>, <<"a">>}}

InitPullRequest ==
    /\ kind = "pull_request"
    /\ self \in [repo_owner : Owners, repo_name : Repos, pull_request_index : PRNumbers]
    /\ webhook_data = <<>>

InitPush ==
    /\ kind = "push"
    /\ self \in [repo_owner : Owners, repo_name : Repos,
                 commit_list : SeqsUpTo([id : CommitIds], MaxCommits)]
    /\ webhook_data \in [before : Shas, after : Shas]

Init ==
    /\ InitPullRequest \/ InitPush
    /\ environ = [present |-> FALSE, value |-> <<>>]
    /\ op = "none"
    /\ args = <<>>
    /\ pc = "ready"
    /\ attempt = 0
    /\ http = <<>>
    /\ responses = <<>>
    /\ slept = <<>>
    /\ result = <<>>

\* the caller goes on after a method returned, and may call the next one: the
\* log of the finished call is dropped
CallerContinues ==
    /\ pc = "returned"
    /\ op' = "none"
    /\ args' = <<>>
    /\ pc' = "ready"
    /\ attempt' = 0
    /\ http' = <<>>
    /\ responses' = <<>>
    /\ slept' = <<>>
    /\ result' = <<>>
    /\ UNCHANGED <<kind, self, webhook_data, environ>>

Next ==
    \/ CallGetPullRequestChanges
    \/ FilesRequestRaises
    \/ FilesNotOk
    \/ FilesNonEmpty
    \/ FilesEmpty
    \/ MaxRetriesReached
    \/ AddPullRequestComment
    \/ GetPushChanges
    \/ AddPushNotes
    \/ CallerContinues

Spec == Init /\ [][Next]_vars

(***************************************************************************)
(* fnmatch.fnmatch, as target_branch_protected uses it (line 194)          *)
(***************************************************************************)
\* The position in rest (the pattern after a '[') of the ']' that closes the
\* class, or 0 when there is none: a leading '!' and a ']' right after the
\* opening (or after the '!') do not close it.
ClassEnd(rest) ==
    LET j1 == IF 1 <= Len(rest) /\ rest[1] = "!" THEN 2 ELSE 1
        j2 == IF j1 <= Len(rest) /\ rest[j1] = "]" THEN j1 + 1 ELSE j1
        closing == {k \in j2..Len(rest) : rest[k] = "]"}
    IN  IF closing = {} THEN 0 ELSE CHOOSE k \in closing : \A m \in closing : k <= m

\* name matches pat: '*' is any run of characters (a '/' included), '?' is any
\* one character, '[seq]' one character of seq, '[!seq]' one character not in
\* seq, an unclosed '[' and every other character stand for themselves.
RECURSIVE fnmatch(_, _)
fnmatch(name, pat) ==
    IF pat = <<>> THEN name = <<>>
    ELSE LET c == Head(pat)
             rest == Tail(pat)
         IN  IF c = "*"
             THEN fnmatch(name, rest) \/ (name # <<>> /\ fnmatch(Tail(name), pat))
             ELSE IF c = "?"
             THEN name # <<>> /\ fnmatch(Tail(name), rest)
             ELSE IF c = "[" /\ ClassEnd(rest) # 0
             THEN LET j == ClassEnd(rest)
                      stuff == SubSeq(rest, 1, j - 1)
                      negated == stuff[1] = "!"
                      members == {stuff[k] : k \in (IF negated THEN 2 ELSE 1)..Len(stuff)}
                  IN  /\ name # <<>>
                      /\ (Head(name) \in members) # negated
                      /\ fnmatch(Tail(name), SubSeq(rest, j + 1, Len(rest)))
             ELSE name # <<>> /\ Head(name) = c /\ fnmatch(Tail(name), rest)

(***************************************************************************)
(* PullRequestHandler.target_branch_protected                              *)
(***************************************************************************)
\* any(... for item in data) that looks at the first item only
any_branch_matches_first_only(target_branch, data) ==
    IF data = <<>> THEN [raised |-> FALSE, value |-> FALSE]
    ELSE IF ~target_branch.present THEN [raised |-> TRUE, value |-> FALSE]
    ELSE [raised |-> FALSE, value |-> fnmatch(target_branch.value, data[1].branch_name)]

\* lines 193-195: any() stops at the first match; fnmatch raises TypeError on a
\* target branch of None as soon as there is an item to compare it with
RECURSIVE any_branch_matches(_, _)
any_branch_matches(target_branch, data) ==
    IF data = <<>> THEN [raised |-> FALSE, value |-> FALSE]
    ELSE IF ~target_branch.present THEN [raised |-> TRUE, value |-> FALSE]
    ELSE IF fnmatch(target_branch.value, Head(data).branch_name)
         THEN [raised |-> FALSE, value |-> TRUE]
         ELSE any_branch_matches(target_branch, Tail(data))

\* pull_request.base.ref of the payload: absent, or a branch name
MaxPatterns == 2
TargetBranches ==
    {[present |-> FALSE, value |-> <<>>]}
        \cup [present : {TRUE},
              value : {<<>>, <<"m">>, <<"r">>, <<"r", "/", "m">>, <<"[", "m">>}]
BranchPatterns ==
    { <<"r", "/", "*">>, <<"m">>, <<"?">>, <<"*", "m">>,
      <<"[", "m", "r", "]">>, <<"[", "!", "m", "]">>, <<"[", "m">>, <<"[", "]", "m", "]">> }
ProtectionResponses ==
    {Response(FALSE, 200, data, <<>>) :
         data \in SeqsUpTo([branch_name : BranchPatterns], MaxPatterns)}
        \cup {Response(FALSE, st, <<>>, <<>>) : st \in ErrorStatuses}
        \cup {Response(TRUE, 0, <<>>, <<>>)}

\* lines 180-200
TargetBranchProtected ==
    /\ kind = "pull_request"
    /\ pc = "ready"
    /\ op' = "target_branch_protected"
    /\ args' = <<>>
    /\ attempt' = 0
    /\ slept' = <<>>
    /\ \E response \in ProtectionResponses :
          /\ http' = <<Request("GET", "branch_protections", "", <<>>, <<>>)>>
          /\ responses' = <<response>>
          /\ IF response.raised
             THEN result' = <<>> /\ pc' = "raised"
             ELSE IF response.status = 200
                  THEN LET found == any_branch_matches(webhook_data.ref, response.json)
                       IN  IF found.raised
                           THEN result' = <<>> /\ pc' = "raised"
                           ELSE result' = found.value /\ pc' = "returned"
                  ELSE result' = FALSE /\ pc' = "returned"
    /\ UNCHANGED <<kind, self, webhook_data, environ>>

\* the pull-request handler after construction, with the payload's base ref
InitProtected ==
    /\ kind = "pull_request"
    /\ self \in [repo_owner : Owners, repo_name : Repos, pull_request_index : PRNumbers]
    /\ webhook_data \in [ref : TargetBranches]
    /\ environ = [present |-> FALSE, value |-> <<>>]
    /\ op = "none"
    /\ args = <<>>
    /\ pc = "ready"
    /\ attempt = 0
    /\ http = <<>>
    /\ responses = <<>>
    /\ slept = <<>>
    /\ result = <<>>

NextProtected ==
    \/ TargetBranchProtected
    \/ CallerContinues

SpecProtected == InitProtected /\ [][NextProtected]_vars

(***************************************************************************)
(* Reading the log of the current call                                     *)
(***************************************************************************)
Exchanges == [i \in 1..Len(http) |-> [request |-> http[i], response |-> responses[i]]]

\* the file-list exchanges of the current call, in order
FileListExchanges == SelectSeq(Exchanges, LAMBDA x : x.request.endpoint = "files")

DiffExchanges == SelectSeq(Exchanges, LAMBDA x : x.request.endpoint = "diff")

SuccessEmpty(response) == Ok(response) /\ response.json = <<>>

SuccessNonEmpty(response) == Ok(response) /\ response.json # <<>>

NotSuccess(response) == ~response.raised /\ response.status # 200

Finished == pc \in {"returned", "raised"}

(***************************************************************************)
(* C1.  One execution of get_pull_request_changes issues at most 3         *)
(* file-list requests, and none after the first file-list response that    *)
(* is a success with a non-empty list or a non-success status.             *)
(***************************************************************************)
C1_AtMostThreeFileListRequests ==
    /\ Len(FileListExchanges) <= 3
    /\ \A n \in 1..Len(FileListExchanges) :
          (SuccessNonEmpty(FileListExchanges[n].response)
               \/ NotSuccess(FileListExchanges[n].response))
              => n = Len(FileListExchanges)

C1_Witness ==
    /\ op = "get_pull_request_changes" /\ pc = "returned"
    /\ Len(FileListExchanges) = 3
    /\ SuccessEmpty(FileListExchanges[1].response)
    /\ SuccessEmpty(FileListExchanges[2].response)
    /\ NotSuccess(FileListExchanges[3].response)

(***************************************************************************)
(* C2.  get_pull_request_changes returns a non-empty list exactly when one *)
(* of its at most 3 file-list attempts succeeded with a non-empty list and *)
(* all earlier ones succeeded with an empty list.  A non-success status    *)
(* ends the method at once with the empty list: that request is the last   *)
(* request of any kind.  Three empty successes give the empty list.        *)
(***************************************************************************)
C2_NonEmptyIffNonEmptySuccess ==
    /\ (op = "get_pull_request_changes" /\ pc = "returned") =>
          /\ result # <<>> <=>
                \E n \in 1..Len(FileListExchanges) :
                   /\ n <= 3
                   /\ SuccessNonEmpty(FileListExchanges[n].response)
                   /\ \A m \in 1..(n - 1) : SuccessEmpty(FileListExchanges[m].response)
          /\ (/\ Len(FileListExchanges) = 3
              /\ \A n \in 1..3 : SuccessEmpty(FileListExchanges[n].response))
                 => result = <<>>
    /\ \A i \in 1..Len(http) :
          (http[i].endpoint = "files" /\ NotSuccess(responses[i]))
              => i = Len(http) /\ pc = "returned" /\ result = <<>>

C2_Witness ==
    /\ op = "get_pull_request_changes" /\ pc = "returned"
    /\ Len(FileListExchanges) = 2
    /\ SuccessEmpty(FileListExchanges[1].response)
    /\ SuccessNonEmpty(FileListExchanges[2].response)
    /\ result # <<>>

\* the files of the last file-list response
ListedFiles == FileListExchanges[Len(FileListExchanges)].response.json

\* how many of the first i entries have no patch
Unpatched(files, i) == Cardinality({j \in 1..i : files[j].patch = <<>>})

(***************************************************************************)
(* C3.  After a file-list success with a non-empty list the method returns *)
(* one change per file entry, in order, with old_path = new_path = the     *)
(* entry's filename.  The diff is the entry's patch when that is not empty *)
(* (and no diff-blob request is made for the entry); otherwise it is the   *)
(* segment _extract_file_diff gives for the filename on the diff blob, and *)
(* empty when the diff-blob request fails.  No entry is dropped.           *)
(***************************************************************************)
C3_OneChangePerFileEntry ==
    (/\ op = "get_pull_request_changes" /\ pc = "returned"
     /\ FileListExchanges # <<>>
     /\ SuccessNonEmpty(FileListExchanges[Len(FileListExchanges)].response))
    => LET files == ListedFiles
       IN  /\ Len(result) = Len(files)
           /\ Len(DiffExchanges) = Unpatched(files, Len(files))
           /\ \A i \in 1..Len(files) :
                 /\ result[i].old_path = files[i].filename
                 /\ result[i].new_path = files[i].filename
                 /\ IF files[i].patch # <<>>
                    THEN result[i].diff = files[i].patch
                    ELSE LET answer == DiffExchanges[Unpatched(files, i)].response
                         IN  IF Ok(answer)
                             THEN result[i].diff
                                      = _extract_file_diff(answer.text, files[i].filename)
                             ELSE result[i].diff = <<>>

\* two entries: the first has no patch and its diff-blob request fails, the second
\* has no patch and gets its segment of a two-file blob
C3_Witness ==
    /\ op = "get_pull_request_changes" /\ pc = "returned"
    /\ FileListExchanges # <<>>
    /\ Len(result) = 2
    /\ Len(DiffExchanges) = 2
    /\ ~Ok(DiffExchanges[1].response)
    /\ result[1].diff = <<>>
    /\ result[2].new_path = <<"a">>
    /\ result[2].diff = <<DIFF_GIT, "a", NL, "+">>

(***************************************************************************)
(* C6.  No API request of any kind is issued for an event whose repo owner *)
(* or repo name is missing or empty.                                       *)
(***************************************************************************)
C6_NoRequestWithoutOwnerAndRepo ==
    (~Truthy(self.repo_owner) \/ ~Truthy(self.repo_name)) => http = <<>>

(***************************************************************************)
(* C7.  get_push_changes returns the empty list without any request when   *)
(* the event has no commits or its after SHA starts with the all-zero      *)
(* prefix, whatever before is.                                             *)
(***************************************************************************)
C7_NoCompareForEmptyOrDeletedPush ==
    (/\ op = "get_push_changes" /\ Finished
     /\ self.commit_list = <<>> \/ StartsWith(webhook_data.after, ZERO_PREFIX))
    => (pc = "returned" /\ http = <<>> /\ result = <<>>)

C7_Witness ==
    /\ op = "get_push_changes" /\ pc = "returned"
    /\ self.commit_list # <<>>
    /\ StartsWith(webhook_data.after, ZERO_PREFIX)
    /\ webhook_data.before = <<"a">>
    /\ http = <<>> /\ result = <<>>

(***************************************************************************)
(* C8.  For a push with at least one commit and an after SHA A that is     *)
(* present and does not start with the all-zero prefix: if before starts   *)
(* with the all-zero prefix, exactly one compare is issued, from A^ to A;  *)
(* if before is a present value B without that prefix, exactly one compare *)
(* is issued, from B to A.                                                 *)
(***************************************************************************)
C8_CompareAgainstParentOnNewBranch ==
    (/\ op = "get_push_changes" /\ Finished
     /\ self.commit_list # <<>>
     /\ webhook_data.after # <<>> /\ ~StartsWith(webhook_data.after, ZERO_PREFIX)
     /\ webhook_data.before # <<>>)
    => /\ Len(http) = 1
       /\ http[1].method = "GET" /\ http[1].endpoint = "compare"
       /\ http[1].after = webhook_data.after
       /\ http[1].before = IF StartsWith(webhook_data.before, ZERO_PREFIX)
                           THEN webhook_data.after \o <<"^">>
                           ELSE webhook_data.before

C8_Witness ==
    /\ op = "get_push_changes" /\ pc = "returned"
    /\ StartsWith(webhook_data.before, ZERO_PREFIX)
    /\ webhook_data.after = <<"a">>
    /\ Len(http) = 1
    /\ http[1].before = <<"a", "^">>
    /\ result # <<>>

RECURSIVE TotalSlept(_)
TotalSlept(sleeps) == IF sleeps = <<>> THEN 0 ELSE Head(sleeps).seconds + TotalSlept(Tail(sleeps))

(***************************************************************************)
(* C9.  get_pull_request_changes sleeps only between two consecutive       *)
(* file-list attempts: at most 2 sleeps, 2 x 10 time units in total, and   *)
(* none after the third attempt.                                           *)
(***************************************************************************)
C9_NoDelayAfterLastAttempt ==
    /\ Len(slept) <= 2
    /\ TotalSlept(slept) <= 2 * 10
    /\ \A k \in 1..Len(slept) : slept[k].after_attempt < 3

(***************************************************************************)
(* C10.  add_push_notes issues no request when the commit list is empty or *)
(* the last commit has no id; otherwise exactly one POST, for the id of    *)
(* the last commit, whatever the status of the response.                   *)
(* add_pull_request_comment issues exactly one POST per call.  Neither     *)
(* raises on a response that is not 201.                                   *)
(***************************************************************************)
C10_SinglePostNoRetry ==
    /\ (op = "add_push_notes" /\ Finished) =>
          /\ IF self.commit_list = <<>>
             THEN http = <<>>
             ELSE IF ~Truthy(self.commit_list[Len(self.commit_list)].id)
                  THEN http = <<>>
                  ELSE /\ Len(http) = 1
                       /\ http[1].method = "POST"
                       /\ http[1].endpoint = "commit_comments"
                       /\ http[1].target = self.commit_list[Len(self.commit_list)].id
          /\ (pc = "raised") => (http # <<>> /\ responses[1].raised)
    /\ (op = "add_pull_request_comment" /\ Finished) =>
          /\ Len(http) = 1
          /\ http[1].method = "POST"
          /\ http[1].endpoint = "issue_comments"
          /\ (pc = "raised") => responses[1].raised

C10_Witness ==
    /\ op = "add_push_notes" /\ pc = "returned"
    /\ Len(self.commit_list) = 2
    /\ self.commit_list[1].id = "c1"
    /\ self.commit_list[2].id = "c2"
    /\ Len(http) = 1
    /\ http[1].target = "c2"
    /\ ~responses[1].raised /\ responses[1].status = 500

(***************************************************************************)
(* C12.  For a push with at least one commit, get_push_changes issues a    *)
(* compare request only when both the before and the after SHA are present *)
(* and not empty.  When either is missing or empty it makes no request and *)
(* returns the empty list, the same value a compare that found no files    *)
(* returns.                                                                *)
(***************************************************************************)
C12_NoCompareWithoutBothShas ==
    (op = "get_push_changes" /\ Finished /\ self.commit_list # <<>>)
    => /\ http # <<>> => (webhook_data.before # <<>> /\ webhook_data.after # <<>>)
       /\ (webhook_data.before = <<>> \/ webhook_data.after = <<>>)
             => /\ http = <<>>
                /\ pc = "returned"
                /\ result = repository_compare(Response(FALSE, 200, <<>>, <<>>))

C12_Witness ==
    /\ op = "get_push_changes" /\ pc = "returned"
    /\ self.commit_list # <<>>
    /\ webhook_data.before = <<>>
    /\ webhook_data.after = <<"a">>
    /\ http = <<>>
    /\ result = <<>>

(***************************************************************************)
(* C11.  target_branch_protected issues exactly one branch-protection      *)
(* request.  It returns true exactly when the response is a success and    *)
(* the event's target branch matches at least one returned pattern under   *)
(* shell-glob matching; on a non-success response it returns false.        *)
(***************************************************************************)
C11_ProtectedIffSomePatternMatches ==
    (op = "target_branch_protected" /\ Finished)
    => /\ Len(http) = 1
       /\ http[1].method = "GET" /\ http[1].endpoint = "branch_protections"
       /\ (pc = "returned" /\ result = TRUE)
             <=> /\ Ok(responses[1])
                 /\ webhook_data.ref.present
                 /\ \E k \in 1..Len(responses[1].json) :
                       fnmatch(webhook_data.ref.value, responses[1].json[k].branch_name)
       /\ NotSuccess(responses[1]) => (pc = "returned" /\ result = FALSE)

\* the branch r/m against the patterns m and r/*: only the second one matches
C11_Witness ==
    /\ op = "target_branch_protected" /\ pc = "returned"
    /\ webhook_data.ref.present /\ webhook_data.ref.value = <<"r", "/", "m">>
    /\ Ok(responses[1])
    /\ Len(responses[1].json) = 2
    /\ responses[1].json[1].branch_name = <<"m">>
    /\ responses[1].json[2].branch_name = <<"r", "/", "*">>
    /\ result = TRUE

====
